---- MODULE Spec2Model ----
(***************************************************************************)
(* A model of lib/AST/ASTContext.cpp: the arena of type nodes, the          *)
(* identifier table, the per-kind uniquing tables and the bound-generic     *)
(* substitution store of one ASTContext.                                    *)
(*                                                                          *)
(* A type node is a record of the heap; its identity (its address) is its   *)
(* index in the heap, 0 is the null Type.  A node is canonical iff it       *)
(* holds a context back-reference (field canonical).  An assert that fails  *)
(* aborts the process: it sets failed and nothing runs afterwards.          *)
(***************************************************************************)
EXTENDS Integers, Sequences, FiniteSets, TLC

VARIABLES heap,     \* the arena: the sequence of type nodes allocated so far
          Impl,     \* ASTContext::Implementation: the tables
          calls,    \* history: per operation, the (key, result) of its calls
          setLog,   \* history: per bound generic node, the lists written for it
          lastGet,  \* the result of getSubstitutions, while the store is as read
          failed,   \* "" or the message of the assert that aborted the process
          DeclaredType,  \* per protocol declaration, the node of its declared type
          race      \* the callers between the find and the insert of their call

vars == <<heap, Impl, calls, setLog, lastGet, failed, DeclaredType, race>>

(***************************************************************************)
(* Bounds.                                                                  *)
(***************************************************************************)
MaxNodes == 6
MaxStrLen == 1
MaxIdents == 2
MaxArgs == 2

Null == 0

(***************************************************************************)
(* The singletons the constructor builds, in the order it builds them.      *)
(***************************************************************************)
TheErrorType == 1
TheEmptyTupleType == 2
TheUnstructuredUnresolvedType == 3
\* A type variable the type checker allocated in the arena (no table holds it).
ATypeVariable == 4

Types == 1..Len(heap)
OptTypes == {Null} \cup Types

Node(kind, decl, parent, args, elts, n, context, hasTypeVariable, unresolved) ==
  [kind |-> kind, decl |-> decl, parent |-> parent, args |-> args,
   elts |-> elts, n |-> n, canonical |-> context,
   hasTV |-> hasTypeVariable, unresolved |-> unresolved]

isCanonical(t) == heap[t].canonical
hasTypeVariable(t) == heap[t].hasTV
isUnresolvedType(t) == heap[t].unresolved

(***************************************************************************)
(* Constructors that live in the headers.                                   *)
(***************************************************************************)
\* A sugar node (Paren, ArraySlice, Substituted) holds no context.
SugarContext == FALSE
\* A leaf built with the context is canonical.
LeafContext == TRUE
\* The unresolved flag of a node whose constructor is in the headers: some
\* structural child is unresolved.
AnyUnresolved(children) ==
  \E i \in 1..Len(children) : children[i] # Null /\ isUnresolvedType(children[i])

(***************************************************************************)
(* DenseMap and FoldingSet.                                                 *)
(***************************************************************************)
EmptyMap == [k \in {} |-> Null]
Lookup(M, k) == IF k \in DOMAIN M THEN M[k] ELSE Null
Store(M, k, v) == [x \in DOMAIN M \cup {k} |-> IF x = k THEN v ELSE M[x]]

\* profiles maps each node of the set to the profile its Profile member computes.
FindNodeOrInsertPos(profiles, ID) ==
  IF \E t \in DOMAIN profiles : profiles[t] = ID
    THEN CHOOSE t \in DOMAIN profiles : profiles[t] = ID
    ELSE Null

\* What a call leaves behind: the nodes it allocated, the tables, its result.
Hit(t) == [new |-> <<>>, Impl |-> Impl, result |-> t]
Miss(node, I) == [new |-> <<node>>, Impl |-> I, result |-> Len(heap) + 1]

\* calls traces the operations in its domain; Init chooses them.
Traced(op) == op \in DOMAIN calls

\* The record of a call: fresh when the call allocated its result, repeat when
\* an earlier call with the same arguments returned the same result.
Call(op, key, result, fresh) ==
  [key |-> key, result |-> result, fresh |-> fresh,
   repeat |-> \E c \in calls[op] : c.key = key /\ c.result = result]

Returned(op, key, result) ==
  IF Traced(op)
    THEN [calls EXCEPT ![op] = @ \cup {Call(op, key, result, result > Len(heap))}]
    ELSE calls

Commit(op, key, r) ==
  /\ failed = ""
  /\ Len(heap) + Len(r.new) <= MaxNodes + Cardinality(DOMAIN DeclaredType)
  /\ heap' = heap \o r.new
  /\ Impl' = r.Impl
  /\ calls' = Returned(op, key, r.result)
  /\ UNCHANGED <<setLog, lastGet, failed, DeclaredType, race>>

Abort(message) ==
  /\ failed = ""
  /\ failed' = message
  /\ UNCHANGED <<heap, Impl, calls, setLog, lastGet, DeclaredType, race>>

(***************************************************************************)
(* ASTContext::getIdentifier.  A string is a sequence of characters; the    *)
(* table is the sequence of its entries and a handle is the address of an   *)
(* entry's key data, here the entry's index; Identifier(0) is the null one. *)
(***************************************************************************)
Chars == {"a", "b"}
Builtin == <<"B", "u", "i", "l", "t", "i", "n">>
Strings == UNION {[1..n -> Chars] : n \in 0..MaxStrLen} \cup {Builtin}

GetOrCreateValue_alwaysCreate(table, Str) ==
  [table |-> Append(table, Str), entry |-> Len(table) + 1]

GetOrCreateValue(table, Str) ==
  IF \E i \in 1..Len(table) : table[i] = Str
    THEN [table |-> table, entry |-> CHOOSE i \in 1..Len(table) : table[i] = Str]
    ELSE [table |-> Append(table, Str), entry |-> Len(table) + 1]

IdentifierReturned(Str, handle) ==
  IF Traced("getIdentifier")
    THEN [calls EXCEPT !["getIdentifier"] =
            @ \cup {Call("getIdentifier", Str, handle,
                         handle > Len(Impl.IdentifierTable))}]
    ELSE calls

getIdentifier_noNullCheck(Str) ==
  /\ failed = ""
  /\ LET e == GetOrCreateValue(Impl.IdentifierTable, Str) IN
       /\ Len(e.table) <= MaxIdents + 1
       /\ Impl' = [Impl EXCEPT !.IdentifierTable = e.table]
       /\ calls' = IdentifierReturned(Str, e.entry)
  /\ UNCHANGED <<heap, setLog, lastGet, failed, DeclaredType, race>>

getIdentifier(Str) ==
  /\ failed = ""
  /\ IF Str = <<>>
       THEN /\ calls' = IdentifierReturned(Str, 0)
            /\ UNCHANGED Impl
       ELSE LET e == GetOrCreateValue(Impl.IdentifierTable, Str) IN
            /\ Len(e.table) <= MaxIdents + 1
            /\ Impl' = [Impl EXCEPT !.IdentifierTable = e.table]
            /\ calls' = IdentifierReturned(Str, e.entry)
  /\ UNCHANGED <<heap, setLog, lastGet, failed, DeclaredType, race>>

(***************************************************************************)
(* ParenType::get.  A null underlying type is dereferenced (line 145): the  *)
(* caller passes the flag that read produces.                               *)
(***************************************************************************)
ParenType_get_(underlying, hasTV) ==
  LET Result == Lookup(Impl.ParenTypes, underlying) IN
  IF Result = Null
    THEN Miss(Node("Paren", "", Null, <<underlying>>, <<>>, 0, SugarContext,
                   hasTV, AnyUnresolved(<<underlying>>)),
              [Impl EXCEPT !.ParenTypes = Store(@, underlying, Len(heap) + 1)])
    ELSE Hit(Result)

ParenType_get(underlying) ==
  Commit("ParenType_get", underlying,
         ParenType_get_(underlying, hasTypeVariable(underlying)))

(***************************************************************************)
(* TupleType::Profile and TupleType::get.  A field is a record of its type  *)
(* (or Null), its name (an Identifier, 0 when unnamed), its initializer (an *)
(* ExprHandle, 0 when absent) and its vararg base type (or Null).           *)
(***************************************************************************)
TupleTypeElt(type, name, init, varargBaseTy) ==
  [type |-> type, name |-> name, init |-> init, vararg |-> varargBaseTy]
hasName(Elt) == Elt.name # 0
hasInit(Elt) == Elt.init # 0
isVararg(Elt) == Elt.vararg # Null

RECURSIVE TupleProfileFrom(_, _)
TupleProfileFrom(Fields, i) ==
  IF i > Len(Fields) THEN <<>>
  ELSE <<Fields[i].type, Fields[i].name, Fields[i].init, Fields[i].vararg>>
         \o TupleProfileFrom(Fields, i + 1)
TupleProfile(Fields) == <<Len(Fields)>> \o TupleProfileFrom(Fields, 1)
TupleProfiles == [t \in Impl.TupleTypes |-> TupleProfile(heap[t].elts)]

\* The first loop leaving at the first default value, before it looks at the
\* type of that field.
RECURSIVE ScanFields_breakOnDefault(_, _, _, _)
ScanFields_breakOnDefault(Fields, i, HasAnyDefaultValues, HasTypeVariable) ==
  IF i > Len(Fields)
    THEN [defaults |-> HasAnyDefaultValues, tv |-> HasTypeVariable]
  ELSE LET Elt == Fields[i]
           eltTV == Elt.type # Null /\ hasTypeVariable(Elt.type)
       IN IF hasInit(Elt)
            THEN [defaults |-> TRUE, tv |-> HasTypeVariable]
          ELSE ScanFields_breakOnDefault(Fields, i + 1, HasAnyDefaultValues,
                                         HasTypeVariable \/ eltTV)

\* The first loop of TupleType::get (lines 169-183), from field i on.
RECURSIVE ScanFields(_, _, _, _)
ScanFields(Fields, i, HasAnyDefaultValues, HasTypeVariable) ==
  IF i > Len(Fields)
    THEN [defaults |-> HasAnyDefaultValues, tv |-> HasTypeVariable]
  ELSE LET Elt == Fields[i]
           d == HasAnyDefaultValues \/ hasInit(Elt)
           eltTV == Elt.type # Null /\ hasTypeVariable(Elt.type)
           tv == HasTypeVariable \/ eltTV
       IN IF hasInit(Elt) /\ HasTypeVariable
            THEN [defaults |-> d, tv |-> HasTypeVariable]
          ELSE IF eltTV /\ d
            THEN [defaults |-> d, tv |-> tv]
          ELSE ScanFields(Fields, i + 1, d, tv)

\* The second loop without its null test.
TupleIsCanonical_nullSkipped(Fields) ==
  \A i \in 1..Len(Fields) : Fields[i].type = Null \/ isCanonical(Fields[i].type)

\* The second loop (lines 199-205).
TupleIsCanonical(Fields) ==
  \A i \in 1..Len(Fields) : Fields[i].type # Null /\ isCanonical(Fields[i].type)

EltTypes(Fields) == [i \in 1..Len(Fields) |-> Fields[i].type]

\* The collapse skipping a field that has a default value.
Collapses_unlessDefault(Fields) ==
  Len(Fields) = 1 /\ ~isVararg(Fields[1]) /\ ~hasName(Fields[1])
  /\ ~hasInit(Fields[1])

Collapses(Fields) ==
  Len(Fields) = 1 /\ ~isVararg(Fields[1]) /\ ~hasName(Fields[1])

\* TupleType::get uniquing every tuple, defaults or not.
TupleType_get_uniqueDefaults(Fields) ==
  LET scan == ScanFields(Fields, 1, FALSE, FALSE)
      TT == FindNodeOrInsertPos(TupleProfiles, TupleProfile(Fields))
      New == Node("Tuple", "", Null, <<>>, Fields, 0, TupleIsCanonical(Fields),
                  scan.tv, AnyUnresolved(EltTypes(Fields)))
  IN IF TT # Null THEN Hit(TT)
     ELSE Miss(New, [Impl EXCEPT !.TupleTypes = @ \cup {Len(heap) + 1}])

\* TupleType::get inserting the node it built whether or not a field has a
\* default value.
TupleType_get_insertsDefaults(Fields) ==
  LET scan == ScanFields(Fields, 1, FALSE, FALSE)
      TT == IF scan.defaults THEN Null
            ELSE FindNodeOrInsertPos(TupleProfiles, TupleProfile(Fields))
      New == Node("Tuple", "", Null, <<>>, Fields, 0, TupleIsCanonical(Fields),
                  scan.tv, AnyUnresolved(EltTypes(Fields)))
  IN IF TT # Null THEN Hit(TT)
     ELSE Miss(New, [Impl EXCEPT !.TupleTypes = @ \cup {Len(heap) + 1}])

\* Lines 169-214: the tuple proper.
TupleType_get_(Fields) ==
  LET scan == ScanFields(Fields, 1, FALSE, FALSE)
      TT == IF scan.defaults THEN Null
            ELSE FindNodeOrInsertPos(TupleProfiles, TupleProfile(Fields))
      New == Node("Tuple", "", Null, <<>>, Fields, 0, TupleIsCanonical(Fields),
                  scan.tv, AnyUnresolved(EltTypes(Fields)))
  IN IF TT # Null THEN Hit(TT)
     ELSE Miss(New, IF scan.defaults THEN Impl
                    ELSE [Impl EXCEPT !.TupleTypes = @ \cup {Len(heap) + 1}])

TupleType_get(Fields) ==
  IF Collapses(Fields)
    THEN IF Fields[1].type = Null
           THEN \/ Abort("null dereference")
                \/ \E garbage \in BOOLEAN :
                     Commit("TupleType_get", Fields,
                            ParenType_get_(Null, garbage))
           ELSE Commit("TupleType_get", Fields,
                       ParenType_get_(Fields[1].type,
                                      hasTypeVariable(Fields[1].type)))
    ELSE Commit("TupleType_get", Fields, TupleType_get_(Fields))

(***************************************************************************)
(* BoundGenericType: Profile, the constructor and get.  A declaration is    *)
(* known by its kind.                                                       *)
(***************************************************************************)
\* A profile that leaves the arguments out.
BoundGenericProfile_noArgs(TheDecl, Parent, GenericArgs) ==
  <<TheDecl, Parent, Len(GenericArgs)>>

BoundGenericProfile(TheDecl, Parent, GenericArgs) ==
  <<TheDecl, Parent, Len(GenericArgs)>> \o GenericArgs
BoundGenericProfiles ==
  [t \in Impl.BoundGenericTypes |->
     BoundGenericProfile(heap[t].decl, heap[t].parent, heap[t].args)]

\* The else bound to the test for a parent: the arguments are looked at only
\* when there is no parent.
BoundGenericUnresolved_elseOfParent(parent, genericArgs) ==
  IF parent # Null THEN isUnresolvedType(parent)
  ELSE \E i \in 1..Len(genericArgs) : isUnresolvedType(genericArgs[i])

\* Lines 259-267.
BoundGenericUnresolved(parent, genericArgs) ==
  IF parent # Null /\ isUnresolvedType(parent) THEN TRUE
  ELSE \E i \in 1..Len(genericArgs) : isUnresolvedType(genericArgs[i])

\* The loop of lines 286-298, from argument i on.
RECURSIVE ScanArgs(_, _, _, _)
ScanArgs(GenericArgs, i, IsCanonical, HasTypeVariable) ==
  IF i > Len(GenericArgs)
    THEN [canonical |-> IsCanonical, tv |-> HasTypeVariable]
  ELSE LET Arg == GenericArgs[i]
           c == IsCanonical /\ isCanonical(Arg)
           tv == HasTypeVariable \/ hasTypeVariable(Arg)
       IN IF ~isCanonical(Arg) /\ HasTypeVariable
            THEN [canonical |-> c, tv |-> HasTypeVariable]
          ELSE IF hasTypeVariable(Arg) /\ ~c
            THEN [canonical |-> c, tv |-> tv]
          ELSE ScanArgs(GenericArgs, i + 1, c, tv)

\* The dispatch testing for a struct where it should test for a class.
BoundGenericKind_structFirst(TheDecl) ==
  IF TheDecl = "Struct" THEN "BoundGenericClass"
  ELSE IF TheDecl = "Class" THEN "BoundGenericStruct"
  ELSE "BoundGenericOneOf"

BoundGenericKind(TheDecl) ==
  IF TheDecl = "Class" THEN "BoundGenericClass"
  ELSE IF TheDecl = "Struct" THEN "BoundGenericStruct"
  ELSE "BoundGenericOneOf"

BoundGenericType_get_(TheDecl, Parent, GenericArgs) ==
  LET BGT == FindNodeOrInsertPos(BoundGenericProfiles,
               BoundGenericProfile(TheDecl, Parent, GenericArgs))
      HasTypeVariable == Parent # Null /\ hasTypeVariable(Parent)
      IsCanonical == Parent = Null \/ isCanonical(Parent)
      scan == IF IsCanonical \/ ~HasTypeVariable
                THEN ScanArgs(GenericArgs, 1, IsCanonical, HasTypeVariable)
                ELSE [canonical |-> IsCanonical, tv |-> HasTypeVariable]
      newType == Node(BoundGenericKind(TheDecl), TheDecl, Parent, GenericArgs,
                      <<>>, 0, scan.canonical, scan.tv,
                      BoundGenericUnresolved(Parent, GenericArgs))
  IN IF BGT # Null THEN Hit(BGT)
     ELSE Miss(newType,
               [Impl EXCEPT !.BoundGenericTypes = @ \cup {Len(heap) + 1}])

BoundGenericType_get(TheDecl, Parent, GenericArgs) ==
  Commit("BoundGenericType_get", <<TheDecl, Parent, GenericArgs>>,
         BoundGenericType_get_(TheDecl, Parent, GenericArgs))

(***************************************************************************)
(* Constructors of the headers that receive the context: the node keeps it  *)
(* iff its parent, when it has one, is canonical.                           *)
(***************************************************************************)
\* The context kept whatever the parent.
NominalContext_always(Parent) == TRUE

NominalContext(Parent) == Parent = Null \/ isCanonical(Parent)

(***************************************************************************)
(* BuiltinIntegerType::get and ModuleType::get.                             *)
(***************************************************************************)
BuiltinIntegerType_get_(BitWidth) ==
  LET Result == Lookup(Impl.IntegerTypes, BitWidth) IN
  IF Result = Null
    THEN Miss(Node("BuiltinInteger", "", Null, <<>>, <<>>, BitWidth,
                   LeafContext, FALSE, FALSE),
              [Impl EXCEPT !.IntegerTypes = Store(@, BitWidth, Len(heap) + 1)])
    ELSE Hit(Result)

BuiltinIntegerType_get(BitWidth) ==
  Commit("BuiltinIntegerType_get", BitWidth, BuiltinIntegerType_get_(BitWidth))

ModuleType_get_(M) ==
  LET Entry == Lookup(Impl.ModuleTypes, M) IN
  IF Entry # Null THEN Hit(Entry)
  ELSE Miss(Node("Module", M, Null, <<>>, <<>>, 0, LeafContext, FALSE, FALSE),
            [Impl EXCEPT !.ModuleTypes = Store(@, M, Len(heap) + 1)])

ModuleType_get(M) == Commit("ModuleType_get", M, ModuleType_get_(M))

(***************************************************************************)
(* UnboundGenericType::get and the nominal types.                           *)
(***************************************************************************)
\* A profile that leaves the parent out.
NominalProfile_noParent(TheDecl, Parent) == <<TheDecl, Null>>

NominalProfile(TheDecl, Parent) == <<TheDecl, Parent>>
NominalProfiles(table) ==
  [t \in table |-> NominalProfile(heap[t].decl, heap[t].parent)]

UnboundGenericType_get_(TheDecl, Parent) ==
  LET unbound == FindNodeOrInsertPos(NominalProfiles(Impl.UnboundGenericTypes),
                                     NominalProfile(TheDecl, Parent))
      hasTV == Parent # Null /\ hasTypeVariable(Parent)
      result == Node("UnboundGeneric", TheDecl, Parent, <<>>, <<>>, 0,
                     NominalContext(Parent), hasTV, AnyUnresolved(<<Parent>>))
  IN IF unbound # Null THEN Hit(unbound)
     ELSE Miss(result,
               [Impl EXCEPT !.UnboundGenericTypes = @ \cup {Len(heap) + 1}])

UnboundGenericType_get(TheDecl, Parent) ==
  Commit("UnboundGenericType_get", <<TheDecl, Parent>>,
         UnboundGenericType_get_(TheDecl, Parent))

\* OneOfType::get, StructType::get and ClassType::get differ in the kind they
\* build and in the table they use.
NominalType_get_(kind, table, D, Parent) ==
  LET found == FindNodeOrInsertPos(NominalProfiles(Impl[table]),
                                   NominalProfile(D, Parent))
      hasTV == Parent # Null /\ hasTypeVariable(Parent)
      ty == Node(kind, D, Parent, <<>>, <<>>, 0, NominalContext(Parent), hasTV,
                 AnyUnresolved(<<Parent>>))
  IN IF found # Null THEN Hit(found)
     ELSE Miss(ty, [Impl EXCEPT ![table] = @ \cup {Len(heap) + 1}])

OneOfType_get(D, Parent) ==
  Commit("OneOfType_get", <<D, Parent>>,
         NominalType_get_("OneOf", "OneOfTypes", D, Parent))

StructType_get(D, Parent) ==
  Commit("StructType_get", <<D, Parent>>,
         NominalType_get_("Struct", "StructTypes", D, Parent))

ClassType_get(D, Parent) ==
  Commit("ClassType_get", <<D, Parent>>,
         NominalType_get_("Class", "ClassTypes", D, Parent))

(***************************************************************************)
(* ProtocolType and NominalType::get.  The declaration of a protocol builds *)
(* the node of its declared type, once; NominalType::get returns that node. *)
(***************************************************************************)
ProtocolDecls == {"P", "Q"}

ProtocolType(TheDecl) ==
  Node("Protocol", TheDecl, Null, <<>>, <<>>, 0, NominalContext(Null), FALSE,
       AnyUnresolved(<<Null>>))

ProtocolDecl(TheDecl) ==
  /\ failed = ""
  /\ TheDecl \notin DOMAIN DeclaredType
  /\ heap' = Append(heap, ProtocolType(TheDecl))
  /\ DeclaredType' = Store(DeclaredType, TheDecl, Len(heap) + 1)
  /\ UNCHANGED <<Impl, calls, setLog, lastGet, failed, race>>

getKind(D) == IF D \in ProtocolDecls THEN "Protocol" ELSE D

NominalType_get(D, Parent) ==
  Commit("NominalType_get", <<D, Parent>>,
         IF getKind(D) = "OneOf"
           THEN NominalType_get_("OneOf", "OneOfTypes", D, Parent)
         ELSE IF getKind(D) = "Struct"
           THEN NominalType_get_("Struct", "StructTypes", D, Parent)
         ELSE IF getKind(D) = "Class"
           THEN NominalType_get_("Class", "ClassTypes", D, Parent)
         ELSE Hit(DeclaredType[D]))

(***************************************************************************)
(* ProtocolCompositionType::build.  Its profile is the list of protocols.   *)
(***************************************************************************)
ProtocolCompositionProfile(Protocols) == Protocols
ProtocolCompositionProfiles ==
  [t \in Impl.ProtocolCompositionTypes |->
     ProtocolCompositionProfile(heap[t].args)]

SetOf(list) == {list[i] : i \in 1..Len(list)}

\* ProtocolCompositionType::build finding a node by the set of its protocols.
ProtocolCompositionType_build_unordered(Protocols) ==
  LET same == {t \in Impl.ProtocolCompositionTypes :
                 SetOf(heap[t].args) = SetOf(Protocols)}
      canonical == \A i \in 1..Len(Protocols) : isCanonical(Protocols[i])
      New == Node("ProtocolComposition", "", Null, Protocols, <<>>, 0,
                  canonical, FALSE, AnyUnresolved(Protocols))
  IN IF same # {} THEN Hit(CHOOSE t \in same : TRUE)
     ELSE Miss(New, [Impl EXCEPT !.ProtocolCompositionTypes =
                                    @ \cup {Len(heap) + 1}])

ProtocolCompositionType_build_(Protocols) ==
  LET Result == FindNodeOrInsertPos(ProtocolCompositionProfiles,
                                    ProtocolCompositionProfile(Protocols))
      canonical == \A i \in 1..Len(Protocols) : isCanonical(Protocols[i])
      New == Node("ProtocolComposition", "", Null, Protocols, <<>>, 0,
                  canonical, FALSE, AnyUnresolved(Protocols))
  IN IF Result # Null THEN Hit(Result)
     ELSE Miss(New, [Impl EXCEPT !.ProtocolCompositionTypes =
                                    @ \cup {Len(heap) + 1}])

ProtocolCompositionType_build(Protocols) ==
  Commit("ProtocolCompositionType_build", Protocols,
         ProtocolCompositionType_build_(Protocols))

(***************************************************************************)
(* MetaTypeType::get and its constructor.                                   *)
(***************************************************************************)
MetaTypeType_get_(T) ==
  LET Entry == Lookup(Impl.MetaTypeTypes, T) IN
  IF Entry # Null THEN Hit(Entry)
  ELSE Miss(Node("MetaType", "", Null, <<T>>, <<>>, 0, isCanonical(T),
                 hasTypeVariable(T), isUnresolvedType(T)),
            [Impl EXCEPT !.MetaTypeTypes = Store(@, T, Len(heap) + 1)])

MetaTypeType_get(T) == Commit("MetaTypeType_get", T, MetaTypeType_get_(T))

(***************************************************************************)
(* FunctionType::get and its constructor; PolymorphicFunctionType.          *)
(***************************************************************************)
Char(b) == IF b THEN 1 ELSE 0

FunctionType(input, output, isAutoClosure, hasTV) ==
  Node("Function", "", Null, <<input, output>>, <<>>, Char(isAutoClosure),
       isCanonical(input) /\ isCanonical(output), hasTV,
       isUnresolvedType(input) \/ isUnresolvedType(output))

FunctionType_get_(Input, Result, isAutoClosure) ==
  LET key == <<Input, <<Result, Char(isAutoClosure)>>>>
      Entry == Lookup(Impl.FunctionTypes, key)
      hasTV == hasTypeVariable(Input) \/ hasTypeVariable(Result)
  IN IF Entry # Null THEN Hit(Entry)
     ELSE Miss(FunctionType(Input, Result, isAutoClosure, hasTV),
               [Impl EXCEPT !.FunctionTypes = Store(@, key, Len(heap) + 1)])

FunctionType_get(Input, Result, isAutoClosure) ==
  Commit("FunctionType_get", <<Input, Result, isAutoClosure>>,
         FunctionType_get_(Input, Result, isAutoClosure))

PolymorphicFunctionType(input, output, params) ==
  Node("PolymorphicFunction", params, Null, <<input, output>>, <<>>, 0,
       isCanonical(input) /\ isCanonical(output), FALSE,
       isUnresolvedType(input) \/ isUnresolvedType(output))

\* PolymorphicFunctionType::get uniquing its nodes the way FunctionType::get
\* does, in the table of the function types.
PolymorphicFunctionType_get_uniqued(input, output, params) ==
  IF hasTypeVariable(input) \/ hasTypeVariable(output)
    THEN Abort("!input->hasTypeVariable() && !output->hasTypeVariable()")
    ELSE LET key == <<input, <<output, 2>>>>
             Entry == Lookup(Impl.FunctionTypes, key)
         IN Commit("PolymorphicFunctionType_get", <<input, output, params>>,
                   IF Entry # Null THEN Hit(Entry)
                   ELSE Miss(PolymorphicFunctionType(input, output, params),
                             [Impl EXCEPT !.FunctionTypes =
                                            Store(@, key, Len(heap) + 1)]))

\* PolymorphicFunctionType::get without the assert of its constructor.
PolymorphicFunctionType_get_noAssert(input, output, params) ==
  Commit("PolymorphicFunctionType_get", <<input, output, params>>,
         Miss(PolymorphicFunctionType(input, output, params), Impl))

PolymorphicFunctionType_get(input, output, params) ==
  IF hasTypeVariable(input) \/ hasTypeVariable(output)
    THEN Abort("!input->hasTypeVariable() && !output->hasTypeVariable()")
    ELSE Commit("PolymorphicFunctionType_get", <<input, output, params>>,
                Miss(PolymorphicFunctionType(input, output, params), Impl))

(***************************************************************************)
(* ArrayType::get and its constructor; ArraySliceType::get.                 *)
(***************************************************************************)
ArrayType(base, size, hasTV) ==
  Node("Array", "", Null, <<base>>, <<>>, size, isCanonical(base), hasTV,
       isUnresolvedType(base))

ArrayType_get_(BaseType, Size) ==
  LET Entry == Lookup(Impl.ArrayTypes, <<BaseType, Size>>) IN
  IF Entry # Null THEN Hit(Entry)
  ELSE Miss(ArrayType(BaseType, Size, hasTypeVariable(BaseType)),
            [Impl EXCEPT !.ArrayTypes =
                           Store(@, <<BaseType, Size>>, Len(heap) + 1)])

\* ArrayType::get taking its slot of the table before it tests the size.
ArrayType_get_lookupFirst(BaseType, Size) ==
  IF Size = 0
    THEN /\ failed = ""
         /\ failed' = "Size != 0"
         /\ Impl' = [Impl EXCEPT !.ArrayTypes =
                                   Store(@, <<BaseType, Size>>,
                                         Lookup(@, <<BaseType, Size>>))]
         /\ UNCHANGED <<heap, calls, setLog, lastGet, DeclaredType, race>>
    ELSE Commit("ArrayType_get", <<BaseType, Size>>,
                ArrayType_get_(BaseType, Size))

ArrayType_get(BaseType, Size) ==
  IF Size = 0
    THEN Abort("Size != 0")
    ELSE Commit("ArrayType_get", <<BaseType, Size>>,
                ArrayType_get_(BaseType, Size))

ArraySliceType_get_(base) ==
  LET entry == Lookup(Impl.ArraySliceTypes, base) IN
  IF entry # Null THEN Hit(entry)
  ELSE Miss(Node("ArraySlice", "", Null, <<base>>, <<>>, 0, SugarContext,
                 hasTypeVariable(base), AnyUnresolved(<<base>>)),
            [Impl EXCEPT !.ArraySliceTypes = Store(@, base, Len(heap) + 1)])

ArraySliceType_get(base) ==
  Commit("ArraySliceType_get", base, ArraySliceType_get_(base))

(***************************************************************************)
(* LValueType::get and SubstitutedType::get.                                *)
(***************************************************************************)
LValueType_get_(objectTy, quals) ==
  LET key == <<objectTy, quals>> IN
  IF key \in DOMAIN Impl.LValueTypes THEN Hit(Impl.LValueTypes[key])
  ELSE Miss(Node("LValue", "", Null, <<objectTy>>, <<>>, quals,
                 isCanonical(objectTy), hasTypeVariable(objectTy),
                 AnyUnresolved(<<objectTy>>)),
            [Impl EXCEPT !.LValueTypes = Store(@, key, Len(heap) + 1)])

LValueType_get(objectTy, quals) ==
  Commit("LValueType_get", <<objectTy, quals>>, LValueType_get_(objectTy, quals))

SubstitutedType_get_(Original, Replacement) ==
  LET Known == Lookup(Impl.SubstitutedTypes, <<Original, Replacement>>) IN
  IF Known = Null
    THEN Miss(Node("Substituted", "", Null, <<Original, Replacement>>, <<>>, 0,
                   SugarContext, hasTypeVariable(Replacement),
                   AnyUnresolved(<<Original, Replacement>>)),
              [Impl EXCEPT !.SubstitutedTypes =
                             Store(@, <<Original, Replacement>>, Len(heap) + 1)])
    ELSE Hit(Known)

SubstitutedType_get(Original, Replacement) ==
  Commit("SubstitutedType_get", <<Original, Replacement>>,
         SubstitutedType_get_(Original, Replacement))

(***************************************************************************)
(* The substitution store.  A list of substitutions is a sequence; the      *)
(* Optional that getSubstitutions returns is Nothing or Some(list).         *)
(***************************************************************************)
Nothing == [has |-> FALSE, value |-> <<>>]
Some(v) == [has |-> TRUE, value |-> v]

isBoundGeneric(t) ==
  heap[t].kind \in {"BoundGenericClass", "BoundGenericStruct", "BoundGenericOneOf"}
BoundGenericNodes == {t \in Types : isBoundGeneric(t)}

Written(Bound) == IF Bound \in DOMAIN setLog THEN setLog[Bound] ELSE <<>>

SubstitutionsReturned(Bound, result) ==
  IF Traced("getSubstitutions")
    THEN [calls EXCEPT !["getSubstitutions"] =
            @ \cup {Call("getSubstitutions", Bound, result, FALSE)}]
    ELSE calls

\* getSubstitutions reading the map with operator[]: a key never set reads as
\* an empty list.
getSubstitutions_zeroValue(Bound) ==
  IF ~isCanonical(Bound)
    THEN Abort("Requesting non-canonical substitutions")
  ELSE LET result == IF Bound \in DOMAIN Impl.BoundGenericSubstitutions
                       THEN Some(Impl.BoundGenericSubstitutions[Bound])
                       ELSE Some(<<>>)
       IN /\ failed = ""
          /\ lastGet' = << [key |-> Bound, result |-> result] >>
          /\ calls' = SubstitutionsReturned(Bound, result)
          /\ UNCHANGED <<heap, Impl, setLog, failed, DeclaredType, race>>

\* getSubstitutions taking its entry with operator[], which makes an empty
\* entry for a key that has none, and returning Nothing for an empty entry.
getSubstitutions_makesEntry(Bound) ==
  IF ~isCanonical(Bound)
    THEN Abort("Requesting non-canonical substitutions")
  ELSE LET Known == IF Bound \in DOMAIN Impl.BoundGenericSubstitutions
                      THEN Impl.BoundGenericSubstitutions[Bound]
                      ELSE <<>>
           result == IF Known = <<>> THEN Nothing ELSE Some(Known)
       IN /\ failed = ""
          /\ lastGet' = << [key |-> Bound, result |-> result] >>
          /\ calls' = SubstitutionsReturned(Bound, result)
          /\ Impl' = [Impl EXCEPT !.BoundGenericSubstitutions =
                                    Store(@, Bound, Known)]
          /\ UNCHANGED <<heap, setLog, failed, DeclaredType, race>>

getSubstitutions(Bound) ==
  IF ~isCanonical(Bound)
    THEN Abort("Requesting non-canonical substitutions")
  ELSE LET result == IF Bound \in DOMAIN Impl.BoundGenericSubstitutions
                       THEN Some(Impl.BoundGenericSubstitutions[Bound])
                       ELSE Nothing
       IN /\ failed = ""
          /\ lastGet' = << [key |-> Bound, result |-> result] >>
          /\ calls' = SubstitutionsReturned(Bound, result)
          /\ UNCHANGED <<heap, Impl, setLog, failed, DeclaredType, race>>

\* setSubstitutions without its second assert.
setSubstitutions_overwrite(Bound, Subs) ==
  IF ~isCanonical(Bound)
    THEN Abort("Requesting non-canonical substitutions")
  ELSE /\ failed = ""
       /\ Impl' = [Impl EXCEPT !.BoundGenericSubstitutions = Store(@, Bound, Subs)]
       /\ setLog' = Store(setLog, Bound, Append(Written(Bound), Subs))
       /\ lastGet' = <<>>
       /\ UNCHANGED <<heap, calls, failed, DeclaredType, race>>

\* setSubstitutions without its first assert.
setSubstitutions_anyKey(Bound, Subs) ==
  IF Bound \in DOMAIN Impl.BoundGenericSubstitutions
    THEN Abort("Already have substitutions?")
  ELSE /\ failed = ""
       /\ Impl' = [Impl EXCEPT !.BoundGenericSubstitutions = Store(@, Bound, Subs)]
       /\ setLog' = Store(setLog, Bound, Append(Written(Bound), Subs))
       /\ lastGet' = <<>>
       /\ UNCHANGED <<heap, calls, failed, DeclaredType, race>>

setSubstitutions(Bound, Subs) ==
  IF ~isCanonical(Bound)
    THEN Abort("Requesting non-canonical substitutions")
  ELSE IF Bound \in DOMAIN Impl.BoundGenericSubstitutions
    THEN Abort("Already have substitutions?")
  ELSE /\ failed = ""
       /\ Impl' = [Impl EXCEPT !.BoundGenericSubstitutions = Store(@, Bound, Subs)]
       /\ setLog' = Store(setLog, Bound, Append(Written(Bound), Subs))
       /\ lastGet' = <<>>
       /\ UNCHANGED <<heap, calls, failed, DeclaredType, race>>

(***************************************************************************)
(* The accessors of the singletons: each returns a member of the context.   *)
(***************************************************************************)
ErrorType_get == Commit("ErrorType_get", <<>>, Hit(TheErrorType))

UnstructuredUnresolvedType_get ==
  Commit("UnstructuredUnresolvedType_get", <<>>,
         Hit(TheUnstructuredUnresolvedType))

TupleType_getEmpty == Commit("TupleType_getEmpty", <<>>, Hit(TheEmptyTupleType))

(***************************************************************************)
(* Two callers of one context.  A call of a uniqued factory is two steps:   *)
(* the find, which returns on a hit and otherwise remembers the insert      *)
(* position, and the construction and insert at the remembered position,    *)
(* which looks at the table no more.  Nothing in the context synchronises   *)
(* the callers, so the steps of two calls interleave.  A caller is          *)
(* overtaken when another caller inserts a node for its key between its     *)
(* find and its insert.                                                     *)
(***************************************************************************)
Callers == {1, 2}
Pending == race.pending

\* The nodes of a FoldingSet whose profile is ID.
FindNodes(profiles, ID) == {t \in DOMAIN profiles : profiles[t] = ID}

\* A call that probes its table: every call but TupleType::get of fields with
\* a default value.
Probes(op, key) ==
  op = "TupleType_get" => ~ScanFields(key, 1, FALSE, FALSE).defaults

\* A find that never hits.
Found_never(op, key) == {}

\* The find of UnboundGenericType::get (lines 226-231), of LValueType::get
\* (lines 542-544) and of TupleType::get (lines 185-193): the nodes it may
\* return.
Found(op, key) ==
  IF op = "UnboundGenericType_get"
    THEN FindNodes(NominalProfiles(Impl.UnboundGenericTypes),
                   NominalProfile(key[1], key[2]))
  ELSE IF op = "LValueType_get"
    THEN IF key \in DOMAIN Impl.LValueTypes THEN {Impl.LValueTypes[key]} ELSE {}
  ELSE IF Probes(op, key)
    THEN FindNodes(TupleProfiles, TupleProfile(key))
  ELSE {}

\* The rest of the call (lines 233-236, 546-551, 195-214): the node built and
\* its insert.  DenseMap::insert keeps the entry a key already has.
Built(op, key) ==
  IF op = "UnboundGenericType_get"
    THEN Miss(Node("UnboundGeneric", key[1], key[2], <<>>, <<>>, 0,
                   NominalContext(key[2]),
                   key[2] # Null /\ hasTypeVariable(key[2]),
                   AnyUnresolved(<<key[2]>>)),
              [Impl EXCEPT !.UnboundGenericTypes = @ \cup {Len(heap) + 1}])
  ELSE IF op = "LValueType_get"
    THEN Miss(Node("LValue", "", Null, <<key[1]>>, <<>>, key[2],
                   isCanonical(key[1]), hasTypeVariable(key[1]),
                   AnyUnresolved(<<key[1]>>)),
              [Impl EXCEPT !.LValueTypes =
                 IF key \in DOMAIN @ THEN @ ELSE Store(@, key, Len(heap) + 1)])
  ELSE Miss(Node("Tuple", "", Null, <<>>, key, 0, TupleIsCanonical(key),
                 ScanFields(key, 1, FALSE, FALSE).tv,
                 AnyUnresolved(EltTypes(key))),
            IF Probes(op, key)
              THEN [Impl EXCEPT !.TupleTypes = @ \cup {Len(heap) + 1}]
              ELSE Impl)

Find(c, op, key) ==
  /\ failed = ""
  /\ c \notin DOMAIN Pending
  /\ IF Found(op, key) # {}
       THEN /\ \E t \in Found(op, key) : calls' = Returned(op, key, t)
            /\ UNCHANGED <<heap, Impl, setLog, lastGet, failed, DeclaredType, race>>
       ELSE /\ race' = [race EXCEPT !.pending =
                          Store(@, c, [op |-> op, key |-> key, overtaken |-> FALSE])]
            /\ UNCHANGED <<heap, Impl, calls, setLog, lastGet, failed, DeclaredType>>

\* The insert position of a FoldingSet is a pointer into its buckets: after
\* another caller's insert it may dangle, and the insert then does anything.
Insert(c) ==
  /\ failed = ""
  /\ c \in DOMAIN Pending
  /\ LET p == Pending[c]
         r == Built(p.op, p.key)
         same == {d \in DOMAIN Pending \ {c} :
                    /\ Pending[d].op = p.op /\ Pending[d].key = p.key
                    /\ Probes(p.op, p.key)}
     IN \/ /\ Len(heap) + 1 <= MaxNodes + Cardinality(DOMAIN DeclaredType)
           /\ heap' = heap \o r.new
           /\ Impl' = r.Impl
           /\ calls' = Returned(p.op, p.key, r.result)
           /\ race' = [pending |->
                         [d \in DOMAIN Pending \ {c} |->
                            IF d \in same
                              THEN [Pending[d] EXCEPT !.overtaken = TRUE]
                              ELSE Pending[d]],
                       overtaken |->
                         IF p.overtaken THEN race.overtaken \cup {r.result}
                         ELSE race.overtaken]
           /\ UNCHANGED <<setLog, lastGet, failed, DeclaredType>>
        \/ /\ p.overtaken /\ p.op # "LValueType_get"
           /\ Abort("dangling InsertPos")

(***************************************************************************)
(* Init: the state the constructor leaves.                                  *)
(***************************************************************************)
\* The constructor building the empty tuple with a bare new, as it builds the
\* other singletons, instead of TupleType::get.
Constructed_emptyTupleUnregistered ==
  /\ heap = << Node("Error", "", Null, <<>>, <<>>, 0, LeafContext, FALSE, FALSE),
               Node("Tuple", "", Null, <<>>, <<>>, 0, TRUE, FALSE, FALSE),
               Node("UnstructuredUnresolved", "", Null, <<>>, <<>>, 0,
                    LeafContext, FALSE, TRUE),
               Node("TypeVariable", "", Null, <<>>, <<>>, 0,
                    LeafContext, TRUE, FALSE) >>
  /\ Impl = [IdentifierTable |-> <<Builtin>>,
             TupleTypes |-> {},
             MetaTypeTypes |-> EmptyMap,
             ModuleTypes |-> EmptyMap,
             FunctionTypes |-> EmptyMap,
             ArrayTypes |-> EmptyMap,
             ArraySliceTypes |-> EmptyMap,
             IntegerTypes |-> EmptyMap,
             ParenTypes |-> EmptyMap,
             LValueTypes |-> EmptyMap,
             SubstitutedTypes |-> EmptyMap,
             OneOfTypes |-> {},
             StructTypes |-> {},
             ClassTypes |-> {},
             ProtocolCompositionTypes |-> {},
             UnboundGenericTypes |-> {},
             BoundGenericTypes |-> {},
             BoundGenericSubstitutions |-> EmptyMap]
  /\ setLog = EmptyMap
  /\ lastGet = <<>>
  /\ failed = ""
  /\ DeclaredType = EmptyMap
  /\ race = [pending |-> EmptyMap, overtaken |-> {}]

Constructed ==
  /\ heap = << Node("Error", "", Null, <<>>, <<>>, 0, LeafContext, FALSE, FALSE),
               Node("Tuple", "", Null, <<>>, <<>>, 0, TRUE, FALSE, FALSE),
               Node("UnstructuredUnresolved", "", Null, <<>>, <<>>, 0,
                    LeafContext, FALSE, TRUE),
               Node("TypeVariable", "", Null, <<>>, <<>>, 0,
                    LeafContext, TRUE, FALSE) >>
  /\ Impl = [IdentifierTable |-> <<Builtin>>,
             TupleTypes |-> {TheEmptyTupleType},
             MetaTypeTypes |-> EmptyMap,
             ModuleTypes |-> EmptyMap,
             FunctionTypes |-> EmptyMap,
             ArrayTypes |-> EmptyMap,
             ArraySliceTypes |-> EmptyMap,
             IntegerTypes |-> EmptyMap,
             ParenTypes |-> EmptyMap,
             LValueTypes |-> EmptyMap,
             SubstitutedTypes |-> EmptyMap,
             OneOfTypes |-> {},
             StructTypes |-> {},
             ClassTypes |-> {},
             ProtocolCompositionTypes |-> {},
             UnboundGenericTypes |-> {},
             BoundGenericTypes |-> {},
             BoundGenericSubstitutions |-> EmptyMap]
  /\ setLog = EmptyMap
  /\ lastGet = <<>>
  /\ failed = ""
  /\ DeclaredType = EmptyMap
  /\ race = [pending |-> EmptyMap, overtaken |-> {}]

\* The constructed context, with the calls of ops traced from then on.
InitTracing(ops) == Constructed /\ calls = [o \in ops |-> {}]

(***************************************************************************)
(* Inputs and specifications.                                               *)
(***************************************************************************)
\* Inputs: the types a specification passes to the factories.  The singletons
\* are interchangeable leaves, so a specification draws from those it needs.
Created == {t \in Types : t > ATypeVariable}
ArgLists(types, n) == UNION {[1..k -> types] : k \in 0..n}
SubstitutionLists == {<<"T:=A">>, <<"T:=B">>}

NextIdent == \E Str \in Strings : getIdentifier(Str)
SpecIdent == InitTracing({"getIdentifier"}) /\ [][NextIdent]_vars

SubstTypes == {TheEmptyTupleType} \cup Created
NextSubst ==
  \/ \E underlying \in SubstTypes : ParenType_get(underlying)
  \/ \E Parent \in {Null} \cup SubstTypes, GenericArgs \in ArgLists(SubstTypes, 1) :
       BoundGenericType_get("Struct", Parent, GenericArgs)
  \/ \E Bound \in BoundGenericNodes : getSubstitutions(Bound)
  \/ \E Bound \in BoundGenericNodes, Subs \in SubstitutionLists :
       setSubstitutions(Bound, Subs)
SpecSubst == InitTracing({}) /\ [][NextSubst]_vars
\* The store with the results of getSubstitutions remembered, over the bound
\* generic nodes of no parent and at most one argument, a Paren node or the
\* empty tuple.
QueryTypes == {TheEmptyTupleType} \cup {t \in Created : heap[t].kind = "Paren"}
NextQuery ==
  \/ ParenType_get(TheEmptyTupleType)
  \/ \E GenericArgs \in ArgLists(QueryTypes, 1) :
       BoundGenericType_get("Struct", Null, GenericArgs)
  \/ \E Bound \in BoundGenericNodes : getSubstitutions(Bound)
  \/ \E Bound \in BoundGenericNodes, Subs \in SubstitutionLists :
       setSubstitutions(Bound, Subs)
SpecQuery == InitTracing({"getSubstitutions"}) /\ [][NextQuery]_vars

\* Every uniqued factory.
BitWidths == {32, 64}
Modules == {"Builtin", "swift"}
Decls == {"Class", "Struct", "OneOf"}
Sizes == {1, 2}
Quals == {0, 1}
UniquedOps ==
  {"BuiltinIntegerType_get", "FunctionType_get", "ArrayType_get",
   "ArraySliceType_get", "MetaTypeType_get", "ModuleType_get", "LValueType_get",
   "SubstitutedType_get", "ParenType_get", "UnboundGenericType_get",
   "BoundGenericType_get", "StructType_get", "ClassType_get", "OneOfType_get"}
UniqTypes == {TheEmptyTupleType} \cup Created
NextUniq ==
  \/ \E BitWidth \in BitWidths : BuiltinIntegerType_get(BitWidth)
  \/ \E Input, Result \in UniqTypes, isAutoClosure \in BOOLEAN :
       FunctionType_get(Input, Result, isAutoClosure)
  \/ \E BaseType \in UniqTypes, Size \in Sizes : ArrayType_get(BaseType, Size)
  \/ \E base \in UniqTypes : ArraySliceType_get(base)
  \/ \E T \in UniqTypes : MetaTypeType_get(T)
  \/ \E M \in Modules : ModuleType_get(M)
  \/ \E objectTy \in UniqTypes, quals \in Quals : LValueType_get(objectTy, quals)
  \/ \E Original, Replacement \in UniqTypes :
       SubstitutedType_get(Original, Replacement)
  \/ \E underlying \in UniqTypes : ParenType_get(underlying)
  \/ \E TheDecl \in Decls, Parent \in {Null} \cup UniqTypes :
       UnboundGenericType_get(TheDecl, Parent)
  \/ \E TheDecl \in Decls, Parent \in {Null} \cup UniqTypes,
        GenericArgs \in ArgLists(UniqTypes, MaxArgs) :
       BoundGenericType_get(TheDecl, Parent, GenericArgs)
  \/ \E Parent \in {Null} \cup UniqTypes : StructType_get("Struct", Parent)
  \/ \E Parent \in {Null} \cup UniqTypes : ClassType_get("Class", Parent)
  \/ \E Parent \in {Null} \cup UniqTypes : OneOfType_get("OneOf", Parent)
SpecUniq == InitTracing(UniquedOps) /\ [][NextUniq]_vars

Names == {0, 1}
Inits == {0, 1}
Elts(types, names, inits, varargs) ==
  {TupleTypeElt(t, n, i, v) : t \in types, n \in names, i \in inits, v \in varargs}
TupleTypes == {Null, TheEmptyTupleType} \cup Created
FieldLists ==
  {<<>>}
  \cup {<<e>> : e \in Elts(TupleTypes, Names, Inits, {Null, TheEmptyTupleType})}
  \cup {<<e1, e2>> : e1, e2 \in Elts(TupleTypes, {0}, Inits, {Null})}

\* The factories that compute canonicality, with ParenType::get as the source
\* of non-canonical children.
GenericParamLists == {"<T>"}
CanonTypes == {TheEmptyTupleType, ATypeVariable} \cup Created
CanonFieldLists ==
  {<<e>> : e \in Elts({Null} \cup CanonTypes, Names, Inits, {Null})}
  \cup {<<e1, e2>> : e1, e2 \in Elts({Null} \cup CanonTypes, {0}, Inits, {Null})}
NextCanon ==
  \/ \E underlying \in CanonTypes : ParenType_get(underlying)
  \/ \E Input, Result \in CanonTypes, isAutoClosure \in BOOLEAN :
       FunctionType_get(Input, Result, isAutoClosure)
  \/ \E input, output \in CanonTypes, params \in GenericParamLists :
       PolymorphicFunctionType_get(input, output, params)
  \/ \E BaseType \in CanonTypes, Size \in Sizes : ArrayType_get(BaseType, Size)
  \/ \E T \in CanonTypes : MetaTypeType_get(T)
  \/ \E objectTy \in CanonTypes, quals \in Quals : LValueType_get(objectTy, quals)
  \/ \E Fields \in CanonFieldLists : TupleType_get(Fields)
  \/ \E Parent \in {Null} \cup CanonTypes,
        GenericArgs \in ArgLists(CanonTypes, MaxArgs) :
       BoundGenericType_get("Struct", Parent, GenericArgs)
  \/ \E Protocols \in ArgLists(CanonTypes, MaxArgs) :
       ProtocolCompositionType_build(Protocols)
CanonOps ==
  {"FunctionType_get", "PolymorphicFunctionType_get", "ArrayType_get",
   "MetaTypeType_get", "LValueType_get", "TupleType_get",
   "BoundGenericType_get", "ProtocolCompositionType_build"}
SpecCanon == InitTracing({}) /\ [][NextCanon]_vars

\* The nominal types and UnboundGenericType, with ParenType::get as the source
\* of non-canonical parents.
NominalOps ==
  {"StructType_get", "ClassType_get", "OneOfType_get", "UnboundGenericType_get"}
NominalTypes == {TheEmptyTupleType, ATypeVariable} \cup Created
NextNominal ==
  \/ \E underlying \in NominalTypes : ParenType_get(underlying)
  \/ \E Parent \in {Null} \cup NominalTypes : StructType_get("Struct", Parent)
  \/ \E Parent \in {Null} \cup NominalTypes : ClassType_get("Class", Parent)
  \/ \E Parent \in {Null} \cup NominalTypes : OneOfType_get("OneOf", Parent)
  \/ \E TheDecl \in Decls, Parent \in {Null} \cup NominalTypes :
       UnboundGenericType_get(TheDecl, Parent)
SpecNominal == InitTracing(NominalOps) /\ [][NextNominal]_vars

NextTuple ==
  \/ \E underlying \in TupleTypes \ {Null} : ParenType_get(underlying)
  \/ \E Fields \in FieldLists : TupleType_get(Fields)
SpecTuple == InitTracing({"TupleType_get", "ParenType_get"}) /\ [][NextTuple]_vars

\* The factories that compute the has-type-variable and unresolved flags, over
\* a resolved leaf, an unresolved leaf and a type variable.
FlagTypes ==
  {TheEmptyTupleType, TheUnstructuredUnresolvedType, ATypeVariable} \cup Created
FlagFieldLists ==
  {<<e>> : e \in Elts({ATypeVariable} \cup Created, {1}, Inits, {Null})}
  \cup {<<e1, e2>> : e1, e2 \in Elts({TheEmptyTupleType, ATypeVariable} \cup Created,
                                     {0}, Inits, {Null})}
NextFlags ==
  \/ \E underlying \in FlagTypes : ParenType_get(underlying)
  \/ \E Input, Result \in FlagTypes : FunctionType_get(Input, Result, FALSE)
  \/ \E input, output \in FlagTypes, params \in GenericParamLists :
       PolymorphicFunctionType_get(input, output, params)
  \/ \E BaseType \in FlagTypes : ArrayType_get(BaseType, 1)
  \/ \E base \in FlagTypes : ArraySliceType_get(base)
  \/ \E T \in FlagTypes : MetaTypeType_get(T)
  \/ \E objectTy \in FlagTypes : LValueType_get(objectTy, 0)
  \/ \E Fields \in FlagFieldLists : TupleType_get(Fields)
  \/ \E Parent \in {Null} \cup FlagTypes, GenericArgs \in ArgLists(FlagTypes, MaxArgs) :
       BoundGenericType_get("Struct", Parent, GenericArgs)
  \/ \E Original, Replacement \in FlagTypes :
       SubstitutedType_get(Original, Replacement)
  \/ \E Parent \in {Null} \cup FlagTypes : StructType_get("Struct", Parent)
  \/ \E Parent \in {Null} \cup FlagTypes : UnboundGenericType_get("Struct", Parent)
SpecFlags == InitTracing({}) /\ [][NextFlags]_vars

\* The factories that assert a precondition on their arguments.
AnySizes == {0, 1, 2}
PrecondTypes == {TheEmptyTupleType, ATypeVariable} \cup Created
PrecondParamLists == {"<T>", "<U>"}
PrecondOps == {"ArrayType_get", "PolymorphicFunctionType_get"}
NextPrecond ==
  \/ \E BaseType \in PrecondTypes, Size \in AnySizes : ArrayType_get(BaseType, Size)
  \/ \E input, output \in PrecondTypes, params \in PrecondParamLists :
       PolymorphicFunctionType_get(input, output, params)
SpecPrecond == InitTracing(PrecondOps) /\ [][NextPrecond]_vars

\* Two callers of three of the uniqued factories.
RaceOps == {"UnboundGenericType_get", "LValueType_get", "TupleType_get"}
RaceTypes == {TheEmptyTupleType} \cup Created
RaceFieldLists == {<<>>} \cup {<<e>> : e \in Elts(RaceTypes, {1}, {0}, {Null})}
NextRace ==
  \E c \in Callers :
    \/ \E Parent \in {Null} \cup RaceTypes :
         Find(c, "UnboundGenericType_get", <<"Struct", Parent>>)
    \/ \E objectTy \in RaceTypes : Find(c, "LValueType_get", <<objectTy, 0>>)
    \/ \E Fields \in RaceFieldLists : Find(c, "TupleType_get", Fields)
    \/ Insert(c)
SpecRace == InitTracing(RaceOps) /\ [][NextRace]_vars

\* NominalType::get over the declarations of the four nominal kinds.
NominalGetTypes == {TheEmptyTupleType}
NextNominalGet ==
  \/ ProtocolDecl("P")
  \/ \E D \in Decls \cup DOMAIN DeclaredType, Parent \in {Null} \cup NominalGetTypes :
       NominalType_get(D, Parent)
SpecNominalGet == InitTracing({"NominalType_get"}) /\ [][NextNominalGet]_vars

\* Compositions of the declared protocols.
ProtocolTypes == {DeclaredType[D] : D \in DOMAIN DeclaredType}
NextProto ==
  \/ \E TheDecl \in ProtocolDecls : ProtocolDecl(TheDecl)
  \/ \E Protocols \in ArgLists(ProtocolTypes, MaxArgs) :
       ProtocolCompositionType_build(Protocols)
SpecProto ==
  InitTracing({"ProtocolCompositionType_build"}) /\ [][NextProto]_vars

\* The accessors of the singletons, and TupleType::get of the empty list and
\* of lists of one named field.
SingletonOps ==
  {"TupleType_get", "TupleType_getEmpty", "ErrorType_get",
   "UnstructuredUnresolvedType_get"}
SingletonFieldLists ==
  {<<>>} \cup {<<e>> : e \in Elts({TheEmptyTupleType} \cup Created, {1}, {0}, {Null})}
NextSingleton ==
  \/ \E Fields \in SingletonFieldLists : TupleType_get(Fields)
  \/ TupleType_getEmpty
  \/ ErrorType_get
  \/ UnstructuredUnresolvedType_get
SpecSingleton == InitTracing(SingletonOps) /\ [][NextSingleton]_vars

(***************************************************************************)
(* Properties.                                                              *)
(***************************************************************************)
\* C1: for every uniqued factory, two of its calls return the same node iff
\* their arguments are equal, whatever was called in between.
C1_IdentityStability ==
  \A op \in UniquedOps \cap DOMAIN calls :
    \A c1, c2 \in calls[op] : (c1.result = c2.result) <=> (c1.key = c2.key)

C1_Witness ==
  \E c1, c2, c3 \in calls["BoundGenericType_get"] :
    /\ c1.key = c2.key /\ c1.fresh /\ c2.repeat
    /\ c3.key # c1.key /\ c3.fresh
    /\ c3.key[1] = c1.key[1] /\ c3.key[2] = c1.key[2]

AllCanonical(children) == \A i \in 1..Len(children) : isCanonical(children[i])

\* C9: a Function, PolymorphicFunction, Array, MetaType, LValue or
\* ProtocolComposition node is canonical iff all its child types are; a Tuple
\* node iff every field has a type and that type is canonical; a bound generic
\* node iff its parent, when it has one, and all its arguments are canonical.
C9_CanonicalityPropagation ==
  \A t \in Types :
    /\ heap[t].kind \in {"Function", "PolymorphicFunction", "Array", "MetaType",
                         "LValue", "ProtocolComposition"} =>
         (isCanonical(t) <=> AllCanonical(heap[t].args))
    /\ heap[t].kind = "Tuple" =>
         (isCanonical(t) <=>
            \A i \in 1..Len(heap[t].elts) :
              heap[t].elts[i].type # Null /\ isCanonical(heap[t].elts[i].type))
    /\ isBoundGeneric(t) =>
         (isCanonical(t) <=>
            /\ heap[t].parent # Null => isCanonical(heap[t].parent)
            /\ AllCanonical(heap[t].args))

C9_Witness ==
  \E t, u \in Types :
    /\ isBoundGeneric(t) /\ ~isCanonical(t)
    /\ heap[t].parent # Null /\ isCanonical(heap[t].parent)
    /\ hasTypeVariable(heap[t].parent)
    /\ \E i \in 1..Len(heap[t].args) : ~isCanonical(heap[t].args[i])
    /\ heap[u].kind = "Paren"

\* C10: a Struct, Class, OneOf or UnboundGeneric node built with a parent is
\* canonical iff that parent is canonical.
C10_ParentedNominalCanonicality ==
  /\ \A op \in NominalOps \cap DOMAIN calls :
       \A c \in calls[op] :
         c.key[2] # Null =>
           /\ heap[c.result].parent = c.key[2]
           /\ isCanonical(c.result) <=> isCanonical(c.key[2])
  /\ \A t \in Types :
       (heap[t].kind \in {"Struct", "Class", "OneOf", "UnboundGeneric"}
          /\ heap[t].parent # Null) =>
         (isCanonical(t) <=> isCanonical(heap[t].parent))

C10_Witness ==
  \E c \in calls["StructType_get"] :
    /\ c.key[2] # Null /\ heap[c.key[2]].kind = "Paren"
    /\ c.fresh /\ ~isCanonical(c.result)

IdentifierCalls == calls["getIdentifier"]

\* C7: two calls of getIdentifier return equal handles iff their strings have
\* equal content, and the handle a call returned still names that content
\* after every later call.
C7_IdentifierInjectiveStable ==
  /\ \A c1, c2 \in IdentifierCalls : (c1.result = c2.result) <=> (c1.key = c2.key)
  /\ \A c \in IdentifierCalls :
       c.result # 0 =>
         /\ c.result \in 1..Len(Impl.IdentifierTable)
         /\ Impl.IdentifierTable[c.result] = c.key

C7_Witness ==
  \E c1, c2, c3 \in IdentifierCalls :
    /\ c1.key = c2.key /\ c1.fresh /\ c2.repeat
    /\ c3.key # c1.key /\ c3.fresh /\ c3.result > c1.result

\* C8: getIdentifier("") returns the null identifier and adds no entry (the
\* table holds "Builtin" and exactly the non-empty strings interned so far),
\* and no non-empty string gets the null identifier.
C8_IdentifierSentinel ==
  /\ \A c \in IdentifierCalls : (c.key = <<>>) <=> (c.result = 0)
  /\ \A c \in IdentifierCalls : c.key = <<>> => ~c.fresh
  /\ \A i \in 1..Len(Impl.IdentifierTable) : Impl.IdentifierTable[i] # <<>>
  /\ Len(Impl.IdentifierTable) =
       Cardinality(({Builtin} \cup {c.key : c \in IdentifierCalls}) \ {<<>>})

C8_Witness ==
  \E c1, c2 \in IdentifierCalls :
    c1.key = <<>> /\ c1.repeat /\ c2.fresh /\ Len(Impl.IdentifierTable) = 2

Substitutions == Impl.BoundGenericSubstitutions

\* C4: getSubstitutions(k) returns Nothing iff no setSubstitutions(k, _) ran
\* before it and otherwise the list that call passed; the store holds, for
\* every key, exactly what was written for that key (a set on one key changes
\* no other key).
C4_SubstitutionLookup ==
  /\ lastGet # <<>> =>
       LET g == lastGet[1] IN
       /\ g.result.has <=> Written(g.key) # <<>>
       /\ g.result.has => g.result.value = Written(g.key)[1]
  /\ DOMAIN Substitutions = {k \in BoundGenericNodes : Written(k) # <<>>}
  /\ \A k \in DOMAIN Substitutions : Substitutions[k] = Written(k)[1]

C4_Witness ==
  /\ lastGet # <<>> /\ lastGet[1].result.has
  /\ \E k \in DOMAIN Substitutions :
       k # lastGet[1].key /\ Substitutions[k] # lastGet[1].result.value

\* C5: a second setSubstitutions for a key aborts and leaves the first value:
\* no key is ever written twice, and the store holds the first list written.
C5_SubstitutionSetOnce ==
  /\ \A k \in BoundGenericNodes : Len(Written(k)) <= 1
  /\ failed = "Already have substitutions?" =>
       /\ DOMAIN Substitutions # {}
       /\ \A k \in DOMAIN Substitutions : Substitutions[k] = Written(k)[1]

C5_Witness ==
  /\ failed = "Already have substitutions?"
  /\ \E k \in DOMAIN Substitutions : Len(Written(k)) = 1

\* C6: getSubstitutions and setSubstitutions abort on a non-canonical node
\* before the store is read or written: no value was ever read or written for
\* a non-canonical key, and the store holds none.
C6_NonCanonicalKeyRejected ==
  /\ \A k \in DOMAIN Substitutions : isCanonical(k)
  /\ \A k \in BoundGenericNodes : Written(k) # <<>> => isCanonical(k)
  /\ lastGet # <<>> => isCanonical(lastGet[1].key)

C6_Witness ==
  /\ failed = "Requesting non-canonical substitutions"
  /\ \E k \in BoundGenericNodes : ~isCanonical(k)

TupleCalls == calls["TupleType_get"]
ParenCalls == calls["ParenType_get"]
SingleUnnamedNonVararg(Fields) ==
  Len(Fields) = 1 /\ Fields[1].name = 0 /\ Fields[1].vararg = Null
HasDefault(Fields) == \E i \in 1..Len(Fields) : Fields[i].init # 0

\* C2: TupleType::get of one unnamed non-vararg field of type T returns the
\* node ParenType::get(T) returns (the entry of T in ParenTypes, a Paren node),
\* and no Tuple node of that shape exists in the arena or in TupleTypes.
C2_TupleParenCollapse ==
  /\ \A c \in TupleCalls :
       (SingleUnnamedNonVararg(c.key) /\ c.key[1].type # Null) =>
         /\ heap[c.result].kind = "Paren"
         /\ Lookup(Impl.ParenTypes, c.key[1].type) = c.result
         /\ \A p \in ParenCalls : p.key = c.key[1].type => p.result = c.result
  /\ \A t \in Types :
       heap[t].kind = "Tuple" => ~SingleUnnamedNonVararg(heap[t].elts)
  /\ \A t \in Impl.TupleTypes : heap[t].kind = "Tuple"

C2_Witness ==
  \E c1, c2 \in TupleCalls, p \in ParenCalls :
    /\ SingleUnnamedNonVararg(c1.key) /\ SingleUnnamedNonVararg(c2.key)
    /\ c1.key[1].init = 0 /\ c2.key[1].init # 0
    /\ c1.key[1].type = p.key /\ c2.key[1].type = p.key

\* C3 as claimed: no two calls of TupleType::get with the same field list, one
\* of whose fields has a default value, return the same node.
C3_DefaultTuplesNeverUnique_Claimed ==
  \A c \in TupleCalls : HasDefault(c.key) => ~c.repeat

\* C3 as amended: the same, except for the list of a single unnamed non-vararg
\* field, which collapses to the uniqued Paren node of its type: every other
\* call with a default-valued field allocates its result.
C3_DefaultTuplesNeverUnique ==
  \A c \in TupleCalls :
    (HasDefault(c.key) /\ ~SingleUnnamedNonVararg(c.key)) =>
      /\ c.fresh /\ ~c.repeat
      /\ heap[c.result].kind = "Tuple"
      /\ c.result \notin Impl.TupleTypes

C3_Witness ==
  \E c1, c2 \in TupleCalls :
    /\ c1.key = c2.key /\ HasDefault(c1.key) /\ ~SingleUnnamedNonVararg(c1.key)
    /\ c1.result # c2.result

AnyTypeVariable(children) ==
  \E i \in 1..Len(children) : children[i] # Null /\ hasTypeVariable(children[i])

\* The has-type-variable flag of every node but a Substituted one is the OR of
\* the flags of its children: input and result of a function, the field types
\* of a tuple, parent and arguments of a bound generic node, the parent of a
\* nominal or unbound generic node, the one child of the others.
TypeVariablePropagation(t) ==
  /\ heap[t].kind \in {"Function", "PolymorphicFunction", "Array", "ArraySlice",
                       "MetaType", "LValue"} =>
       (hasTypeVariable(t) <=> AnyTypeVariable(heap[t].args))
  /\ (heap[t].kind = "Paren" /\ heap[t].args[1] # Null) =>
       (hasTypeVariable(t) <=> hasTypeVariable(heap[t].args[1]))
  /\ heap[t].kind = "Tuple" =>
       (hasTypeVariable(t) <=> AnyTypeVariable(EltTypes(heap[t].elts)))
  /\ isBoundGeneric(t) =>
       (hasTypeVariable(t) <=>
          AnyTypeVariable(<<heap[t].parent>> \o heap[t].args))
  /\ heap[t].kind \in {"Struct", "Class", "OneOf", "UnboundGeneric"} =>
       (hasTypeVariable(t) <=> AnyTypeVariable(<<heap[t].parent>>))

\* C11 as claimed: the has-type-variable flag of every node is the OR of the
\* flags of all its structural children; for a Substituted node, of its
\* original and its replacement.
C11_TypeVariablePropagation_Claimed ==
  \A t \in Types :
    /\ TypeVariablePropagation(t)
    /\ heap[t].kind = "Substituted" =>
         (hasTypeVariable(t) <=> AnyTypeVariable(heap[t].args))

\* C11 as amended: the same for every node but a Substituted one, whose flag
\* is the flag of its replacement alone, whatever its original.
C11_TypeVariablePropagation ==
  \A t \in Types :
    /\ TypeVariablePropagation(t)
    /\ heap[t].kind = "Substituted" =>
         (hasTypeVariable(t) <=> hasTypeVariable(heap[t].args[2]))

C11_Witness ==
  \E t, s \in Types :
    /\ heap[t].kind = "Tuple" /\ hasTypeVariable(t)
    /\ Len(heap[t].elts) = 2 /\ HasDefault(heap[t].elts)
    /\ heap[s].kind = "Substituted" /\ ~hasTypeVariable(s)
    /\ hasTypeVariable(heap[s].args[1])

\* C12: ArrayType::get with size 0 aborts before it touches ArrayTypes: the
\* table has no key of size 0 and no empty slot, no call with size 0 returned,
\* and no Array node has size 0.
C12_ArraySizePrecondition ==
  /\ \A key \in DOMAIN Impl.ArrayTypes :
       /\ key[2] # 0
       /\ Impl.ArrayTypes[key] # Null
       /\ heap[Impl.ArrayTypes[key]].kind = "Array"
  /\ \A c \in calls["ArrayType_get"] : c.key[2] # 0
  /\ \A t \in Types : heap[t].kind = "Array" => heap[t].n # 0

C12_Witness ==
  /\ failed = "Size != 0"
  /\ \E t \in Types : heap[t].kind = "Array"
  /\ DOMAIN Impl.ArrayTypes # {}

PolymorphicCalls == calls["PolymorphicFunctionType_get"]

\* C13: every call of PolymorphicFunctionType::get returns a node it has just
\* allocated, which no earlier call returned, and the step of the call leaves
\* every table as it was.
C13_PolymorphicNeverUniqued ==
  /\ [](\A c \in PolymorphicCalls :
          /\ c.fresh /\ ~c.repeat
          /\ heap[c.result].kind = "PolymorphicFunction"
          /\ \A d \in PolymorphicCalls : d.result = c.result => d.key = c.key)
  /\ [][PolymorphicCalls' # PolymorphicCalls =>
         (Impl' = Impl /\ Len(heap') = Len(heap) + 1)]_vars

C13_Witness ==
  \E c1, c2 \in PolymorphicCalls : c1.key = c2.key /\ c1.result # c2.result

\* C18: PolymorphicFunctionType::get aborts when its input or its result has
\* a type variable: no such call returned, and every PolymorphicFunction node
\* has the flag off, as have its input and its result.
C18_PolymorphicPrecondition ==
  /\ \A c \in PolymorphicCalls :
       ~hasTypeVariable(c.key[1]) /\ ~hasTypeVariable(c.key[2])
  /\ \A t \in Types :
       heap[t].kind = "PolymorphicFunction" =>
         ~hasTypeVariable(t) /\ ~AnyTypeVariable(heap[t].args)

C18_Witness ==
  /\ failed = "!input->hasTypeVariable() && !output->hasTypeVariable()"
  /\ \E t \in Types : heap[t].kind = "PolymorphicFunction"

\* C14 as claimed: two callers that request the same key of the same table,
\* their finds and inserts interleaved, get the same node.
C14_RacingCallers_Claimed ==
  \A op \in RaceOps \cap DOMAIN calls :
    \A c1, c2 \in calls[op] : c1.key = c2.key => c1.result = c2.result

\* C14 as amended: two calls with the same key return two nodes only when one
\* of them was overtaken, its insert coming after another caller's insert for
\* the key that its find had not seen; calls that are not overtaken return the
\* same node.
C14_RacingCallers ==
  \A op \in RaceOps \cap DOMAIN calls :
    \A c1, c2 \in calls[op] :
      (c1.key = c2.key /\ c1.result # c2.result) =>
        (c1.result \in race.overtaken \/ c2.result \in race.overtaken)

C14_Witness ==
  \E op \in RaceOps \cap DOMAIN calls :
    \E c1, c2, c3 \in calls[op] :
      /\ c1.key = c2.key /\ c1.result # c2.result
      /\ c1.result \notin race.overtaken /\ c2.result \in race.overtaken
      /\ c3.key = c1.key /\ c3.repeat

CompositionCalls == calls["ProtocolCompositionType_build"]

\* C15: two calls of ProtocolCompositionType::build return the same node iff
\* their protocol lists are equal as sequences; the lists of one set in two
\* orders get two nodes.
C15_CompositionOrderSensitive ==
  \A c1, c2 \in CompositionCalls : (c1.result = c2.result) <=> (c1.key = c2.key)

C15_Witness ==
  \E c1, c2, c3 \in CompositionCalls :
    /\ Len(c1.key) = 2 /\ c1.key[1] # c1.key[2]
    /\ c2.key = <<c1.key[2], c1.key[1]>>
    /\ c1.result # c2.result
    /\ c3.key = c1.key /\ c3.repeat
    /\ heap[c1.key[1]].kind = "Protocol" /\ heap[c1.key[2]].kind = "Protocol"

NominalGetCalls == calls["NominalType_get"]

\* C17 as claimed: for a declaration of any nominal kind, protocols included,
\* NominalType::get(D, P1) and NominalType::get(D, P2) return the same node
\* iff P1 = P2.
C17_NominalKeyedByParent_Claimed ==
  \A c1, c2 \in NominalGetCalls :
    c1.key[1] = c2.key[1] => ((c1.result = c2.result) <=> (c1.key[2] = c2.key[2]))

\* C17 as amended: that holds for struct, class and oneof declarations, whose
\* node has the parent of the call; for a protocol declaration every call
\* returns the node of its declared type, which has no parent, whatever the
\* parent of the call.
C17_NominalKeyedByParent ==
  /\ \A c1, c2 \in NominalGetCalls :
       (c1.key[1] = c2.key[1] /\ getKind(c1.key[1]) # "Protocol") =>
         ((c1.result = c2.result) <=> (c1.key[2] = c2.key[2]))
  /\ \A c \in NominalGetCalls :
       IF getKind(c.key[1]) = "Protocol"
         THEN /\ c.result = DeclaredType[c.key[1]]
              /\ heap[c.result].kind = "Protocol"
              /\ heap[c.result].parent = Null
         ELSE /\ heap[c.result].kind = getKind(c.key[1])
              /\ heap[c.result].parent = c.key[2]

C17_Witness ==
  \E c1, c2, c3, c4 \in NominalGetCalls :
    /\ getKind(c1.key[1]) = "Protocol" /\ c2.key[1] = c1.key[1]
    /\ c1.key[2] # c2.key[2] /\ c1.result = c2.result
    /\ getKind(c3.key[1]) = "Struct" /\ c4.key[1] = c3.key[1]
    /\ c3.key[2] # c4.key[2] /\ c3.result # c4.result

BoundGenericCalls == calls["BoundGenericType_get"]

\* C16: BoundGenericType::get builds a BoundGenericClass node for a class
\* declaration, a BoundGenericStruct node for a struct and a BoundGenericOneOf
\* node for a oneof; the nodes of the three kinds are all in BoundGenericTypes,
\* under the key (decl, parent, args) of the call, and the kind of every node
\* of the table is the one of its declaration.
C16_BoundGenericDispatch ==
  /\ \A t \in Impl.BoundGenericTypes :
       /\ heap[t].decl = "Class" => heap[t].kind = "BoundGenericClass"
       /\ heap[t].decl = "Struct" => heap[t].kind = "BoundGenericStruct"
       /\ heap[t].decl = "OneOf" => heap[t].kind = "BoundGenericOneOf"
  /\ \A t \in Types : isBoundGeneric(t) <=> t \in Impl.BoundGenericTypes
  /\ \A c \in BoundGenericCalls :
       /\ c.result \in Impl.BoundGenericTypes
       /\ heap[c.result].decl = c.key[1]
       /\ heap[c.result].parent = c.key[2]
       /\ heap[c.result].args = c.key[3]

C16_Witness ==
  \E c1, c2 \in BoundGenericCalls :
    /\ heap[c1.result].kind = "BoundGenericClass"
    /\ heap[c2.result].kind \in {"BoundGenericStruct", "BoundGenericOneOf"}
    /\ c1.key[2] = c2.key[2] /\ c1.key[3] = c2.key[3]
    /\ Cardinality(Impl.BoundGenericTypes) = 2

\* C19: a bound generic node is unresolved iff its parent, when it has one, is
\* unresolved or one of its arguments is; a Function or PolymorphicFunction
\* node iff its input or its result is; an Array node iff its base is; a
\* MetaType node iff its instance type is.
C19_UnresolvedPropagation ==
  \A t \in Types :
    /\ isBoundGeneric(t) =>
         (isUnresolvedType(t) <=>
            \/ heap[t].parent # Null /\ isUnresolvedType(heap[t].parent)
            \/ \E i \in 1..Len(heap[t].args) : isUnresolvedType(heap[t].args[i]))
    /\ heap[t].kind \in {"Function", "PolymorphicFunction"} =>
         (isUnresolvedType(t) <=>
            isUnresolvedType(heap[t].args[1]) \/ isUnresolvedType(heap[t].args[2]))
    /\ heap[t].kind \in {"Array", "MetaType"} =>
         (isUnresolvedType(t) <=> isUnresolvedType(heap[t].args[1]))

C19_Witness ==
  \E t, u \in Types :
    /\ isBoundGeneric(t) /\ isUnresolvedType(t)
    /\ heap[t].parent # Null /\ ~isUnresolvedType(heap[t].parent)
    /\ isBoundGeneric(u) /\ ~isUnresolvedType(u) /\ heap[u].parent = Null
    /\ heap[u].args # <<>>

GetCalls == calls["getSubstitutions"]

\* C20: a step of getSubstitutions changes neither the store nor the arena,
\* and a key for which it returned Nothing and no setSubstitutions ran has no
\* entry in the store and is canonical, so that setSubstitutions passes both
\* its asserts for it, however many lookups came in between.
C20_GetSubstitutionsPure ==
  /\ [](\A c \in GetCalls :
          /\ isCanonical(c.key)
          /\ (~c.result.has /\ Written(c.key) = <<>>) =>
               c.key \notin DOMAIN Substitutions)
  /\ [][(GetCalls' # GetCalls \/ (lastGet' # <<>> /\ lastGet' # lastGet)) =>
         (Impl' = Impl /\ heap' = heap /\ setLog' = setLog)]_vars

C20_Witness ==
  \E c1, c2 \in GetCalls :
    /\ ~c1.result.has /\ c1.repeat
    /\ c2.key = c1.key /\ c2.result.has
    /\ c1.key \in DOMAIN Substitutions /\ Len(Written(c1.key)) = 1

\* The nodes of TupleTypes are Tuple nodes that have no field with a default
\* value and are not a single unnamed non-vararg field, and a call of
\* TupleType::get that did not allocate its result returned no Tuple node with
\* a default value.
TupleTableInvariant ==
  /\ \A t \in Impl.TupleTypes :
       /\ heap[t].kind = "Tuple"
       /\ ~HasDefault(heap[t].elts)
       /\ ~SingleUnnamedNonVararg(heap[t].elts)
  /\ \A c \in TupleCalls :
       (~c.fresh /\ heap[c.result].kind = "Tuple") =>
         (c.result \in Impl.TupleTypes /\ ~HasDefault(heap[c.result].elts))

\* C21 as claimed: the tuple table invariant, and no call of TupleType::get
\* without a default value returns a node that a call with a default value
\* returned.
C21_TupleTableInvariant_Claimed ==
  /\ TupleTableInvariant
  /\ \A c1, c2 \in TupleCalls :
       (HasDefault(c1.key) /\ ~HasDefault(c2.key)) => c1.result # c2.result

\* C21 as amended: the tuple table invariant, and no call of TupleType::get
\* without a default value returns a node that a call with a default value
\* returned, unless both are calls with a single unnamed non-vararg field of
\* one type, which return the Paren node of that type.
C21_TupleTableInvariant ==
  /\ TupleTableInvariant
  /\ \A c1, c2 \in TupleCalls :
       (HasDefault(c1.key) /\ ~HasDefault(c2.key) /\ c1.result = c2.result) =>
         /\ SingleUnnamedNonVararg(c1.key) /\ SingleUnnamedNonVararg(c2.key)
         /\ c1.key[1].type = c2.key[1].type
         /\ heap[c1.result].kind = "Paren"

C21_Witness ==
  \E c1, c2 \in TupleCalls :
    /\ HasDefault(c1.key) /\ c1.fresh /\ heap[c1.result].kind = "Tuple"
    /\ c1.result \notin Impl.TupleTypes
    /\ ~HasDefault(c2.key) /\ c2.fresh /\ heap[c2.result].kind = "Tuple"
    /\ c2.result \in Impl.TupleTypes
    /\ Len(c1.key) = Len(c2.key)
    /\ \A i \in 1..Len(c1.key) :
         /\ c1.key[i].type = c2.key[i].type /\ c1.key[i].name = c2.key[i].name
         /\ c1.key[i].vararg = c2.key[i].vararg

AccessorCalls ==
  calls["TupleType_getEmpty"] \cup calls["ErrorType_get"]
    \cup calls["UnstructuredUnresolvedType_get"]

\* C22: the empty tuple of the constructor is in TupleTypes, so every call of
\* TupleType::get with no field returns, without allocating, the node that
\* TupleType::getEmpty returns; every call of TupleType::getEmpty returns that
\* one Tuple node of no field, every call of ErrorType::get one Error node and
\* every call of UnstructuredUnresolvedType::get one UnstructuredUnresolved
\* node; and a step of an accessor changes neither a table nor the arena.
C22_EmptyTupleSingleton ==
  /\ [](/\ \E t \in Impl.TupleTypes : heap[t].elts = <<>>
        /\ \A c \in TupleCalls : c.key = <<>> =>
             /\ ~c.fresh
             /\ heap[c.result].kind = "Tuple" /\ heap[c.result].elts = <<>>
             /\ c.result \in Impl.TupleTypes
             /\ \A e \in calls["TupleType_getEmpty"] : e.result = c.result
        /\ \A op \in SingletonOps \ {"TupleType_get"} :
             \A c1, c2 \in calls[op] : c1.result = c2.result
        /\ \A c \in calls["TupleType_getEmpty"] :
             heap[c.result].kind = "Tuple" /\ heap[c.result].elts = <<>>
        /\ \A c \in calls["ErrorType_get"] : heap[c.result].kind = "Error"
        /\ \A c \in calls["UnstructuredUnresolvedType_get"] :
             heap[c.result].kind = "UnstructuredUnresolved")
  /\ [][AccessorCalls' # AccessorCalls => (Impl' = Impl /\ heap' = heap)]_vars

C22_Witness ==
  /\ \E c \in TupleCalls : c.key = <<>> /\ c.repeat
  /\ \E c \in TupleCalls : c.key # <<>> /\ c.fresh /\ c.result \in Impl.TupleTypes
  /\ \E c \in calls["TupleType_getEmpty"] : c.repeat
  /\ \E c \in calls["ErrorType_get"] : c.repeat
  /\ \E c \in calls["UnstructuredUnresolvedType_get"] : c.repeat

====
